---- MODULE Spec2Model ----
(***************************************************************************)
(* AiGuru: the usage-quota controller and generation client of the AI      *)
(* service module (src/unnamed/part_002), the conversation orchestrator    *)
(* (src/src/components/ChatInterface.tsx), the voice button                *)
(* (src/src/components/VoiceButton.tsx) and the credential prompt          *)
(* (src/unnamed/part_000), as one state machine.                           *)
(*                                                                         *)
(* Strings that the code inspects (user text, credentials, the stored      *)
(* usage count) are sequences of character codes.  Fixed message texts are *)
(* records of a template and its interpolated argument.  A localStorage    *)
(* slot is <<>> when getItem returns null and <<v>> when it holds v.       *)
(***************************************************************************)
EXTENDS Integers, Sequences, FiniteSets, TLC

VARIABLES
    today,            \* the calendar day of the wall clock (new Date())
    localStorage,     \* the three slots of the Local Preference Store
    mounted,          \* the mount effect of ChatInterface has run
    messages,         \* useState<Message[]>
    isLoading,        \* useState(false)
    usageInfo,        \* useState({ canUse: true, remaining: 4 })
    showApiKeyModal,  \* useState(false)
    isLimitExceeded,  \* useState(false)
    calling,          \* the handleSendMessage invocation suspended at its first await, or <<>>
    inFlight,         \* the invocations awaiting model.generateContent, in dispatch order
    recState,         \* the SpeechRecognition object of VoiceButton
    isListening,      \* useState(false) of ChatInterface, set by VoiceButton
    isProcessing,     \* useState(false) of VoiceButton
    subState,         \* history: the recovery sub-state the catch block entered last
    otherTabUses,     \* generations another tab has completed
    svcPending,       \* direct calls of generateResponse awaiting the provider
    svcCheck,         \* what the latest direct call of checkUsageLimit returned
    svcResult,        \* how the latest direct call of generateResponse settled
    uploadedFiles,    \* useState<UploadedFile[]>([])
    voiceFiles,       \* the uploadedFiles that the handler held by recognition.onresult closes over
    langText,         \* the text given to detectLanguage and translateText called directly
    langFrom,         \* the fromLang given to translateText
    langTo,           \* the toLang given to translateText
    detected,         \* what detectLanguage(langText) resolved to, once called
    translated,       \* what translateText(langText, langFrom, langTo) resolved to, once called
    genPending,       \* the request of a direct call generateResponse(prompt, context, fileContent, isImage) awaiting the provider
    showFileUpload,   \* useState(false)
    processing,       \* the dropped files whose processFile awaits their content
    now,              \* the browser's clock in milliseconds: Date.now()
    storageDisabled,  \* the browser refuses access to window.localStorage
    uncaught,         \* the latest error no handler caught, and where it surfaced, or <<>>
    conversations,    \* the rows of table public.conversations
    dbNow,            \* the database clock: now()
    dbRead            \* the latest read of the table: who read, how, and the rows returned

vars == <<today, localStorage, mounted, messages, isLoading, usageInfo,
          showApiKeyModal, isLimitExceeded, calling, inFlight,
          recState, isListening, isProcessing, subState, otherTabUses,
          svcPending, svcCheck, svcResult, uploadedFiles, voiceFiles,
          langText, langFrom, langTo, detected, translated, genPending,
          showFileUpload, processing, now, storageDisabled, uncaught,
          conversations, dbNow, dbRead>>

uiVars == <<messages, isLoading, usageInfo, showApiKeyModal, isLimitExceeded>>
voiceVars == <<recState, isListening, isProcessing>>
svcVars == <<svcPending, svcCheck, svcResult>>
fileVars == <<uploadedFiles, voiceFiles, showFileUpload, processing>>
langVars == <<langText, langFrom, langTo, detected, translated>>
genVars == <<genPending>>
hostVars == <<now, storageDisabled, uncaught>>
dbVars == <<conversations, dbNow, dbRead>>
appVars == <<mounted, uiVars, calling, inFlight, voiceVars, subState>>

----------------------------------------------------------------------------
(* Bounds of the model *)

MaxDay == 2
MaxMessages == 4
MaxInFlight == 2
MaxOtherTabUses == 1
MaxNow == 2

(* Program constants *)

MAX_DAILY_USAGE == 4

----------------------------------------------------------------------------
(* Strings *)

Max(a, b) == IF a >= b THEN a ELSE b

\* the white space String.prototype.trim removes (the codes that occur here)
WhiteSpace == {9, 10, 11, 12, 13, 32, 160}

RECURSIVE TrimStart(_)
TrimStart(s) ==
    IF s # <<>> /\ Head(s) \in WhiteSpace THEN TrimStart(Tail(s)) ELSE s

RECURSIVE TrimEnd(_)
TrimEnd(s) ==
    IF s # <<>> /\ s[Len(s)] \in WhiteSpace
    THEN TrimEnd(SubSeq(s, 1, Len(s) - 1))
    ELSE s

\* String.prototype.trim
Trim(s) == TrimEnd(TrimStart(s))

\* Number.prototype.toString of an integer >= 0: its decimal digits
\* String.prototype.split with a one-character separator
RECURSIVE Split(_, _)
Split(s, sep) ==
    IF \A k \in 1..Len(s) : s[k] # sep THEN <<s>>
    ELSE LET k == CHOOSE i \in 1..Len(s) :
                      s[i] = sep /\ \A j \in 1..(i - 1) : s[j] # sep
         IN  <<SubSeq(s, 1, k - 1)>> \o Split(SubSeq(s, k + 1, Len(s)), sep)

\* array[i] with i counted from 0: <<>> where JavaScript gives undefined
At(array, i) == IF i + 1 <= Len(array) THEN <<array[i + 1]>> ELSE <<>>

\* String.prototype.includes
IncludesText(s, sub) ==
    \E k \in 0..(Len(s) - Len(sub)) : SubSeq(s, k + 1, k + Len(sub)) = sub

RECURSIVE NumberToString(_)
NumberToString(n) ==
    IF n < 10 THEN <<48 + n>>
    ELSE Append(NumberToString(n \div 10), 48 + (n % 10))

\* parseInt of a string of decimal digits (the only strings stored under
\* USAGE_KEY, and the literal '0')
RECURSIVE parseInt(_)
parseInt(s) ==
    IF Len(s) = 1 THEN s[1] - 48
    ELSE 10 * parseInt(SubSeq(s, 1, Len(s) - 1)) + (s[Len(s)] - 48)

\* Date.prototype.toDateString: one string per calendar day, named by the day
toDateString(day) == day

----------------------------------------------------------------------------
(* Local Preference Store *)

API_KEY_STORAGE == "gemini_api_key"
USAGE_KEY == "ai_usage_count"
USAGE_DATE_KEY == "ai_usage_date"

getItem(ls, key) == ls[key]
setItem(ls, key, value) == [ls EXCEPT ![key] = <<value>>]

EmptyStorage ==
    [k \in {API_KEY_STORAGE, USAGE_KEY, USAGE_DATE_KEY} |-> <<>>]

\* localStorage.getItem(USAGE_KEY) || '0'
StoredCountString(ls) ==
    IF getItem(ls, USAGE_KEY) = <<>> \/ getItem(ls, USAGE_KEY)[1] = <<>>
    THEN <<48>>
    ELSE getItem(ls, USAGE_KEY)[1]

----------------------------------------------------------------------------
(* Usage Quota Controller *)

\* a setApiKey that zeroes the count and leaves the stored date alone
setApiKeyKeepsDate(ls, apiKey, day) ==
    setItem(setItem(ls, API_KEY_STORAGE, apiKey), USAGE_KEY, NumberToString(0))

\* a setApiKey that stores the credential and leaves the usage slots alone
setApiKeyKeepsUsage(ls, apiKey, day) == setItem(ls, API_KEY_STORAGE, apiKey)

\* setApiKey: the credential, then the count '0' and today's date
setApiKey(ls, apiKey, day) ==
    setItem(setItem(setItem(ls, API_KEY_STORAGE, apiKey),
                    USAGE_KEY, <<48>>),
            USAGE_DATE_KEY, toDateString(day))

\* checkUsageLimit, line 79: a new day
IsNewDay(ls, day) == getItem(ls, USAGE_DATE_KEY) # <<toDateString(day)>>

\* a checkUsageLimit that never zeroes the count it read
CountNeverReset(ls, day) == parseInt(StoredCountString(ls))

\* checkUsageLimit, lines 76-83: the count after the reset
CountAfterReset(ls, day) ==
    IF IsNewDay(ls, day) THEN 0 ELSE parseInt(StoredCountString(ls))

\* a reset that stamps the date and forgets to store the count '0'
StoreAfterResetDateOnly(ls, day) ==
    IF IsNewDay(ls, day) THEN setItem(ls, USAGE_DATE_KEY, toDateString(day)) ELSE ls

\* checkUsageLimit, lines 79-83: the store after the reset
StoreAfterReset(ls, day) ==
    IF IsNewDay(ls, day)
    THEN setItem(setItem(ls, USAGE_DATE_KEY, toDateString(day)), USAGE_KEY, <<48>>)
    ELSE ls

\* checkUsageLimit, line 87
CanUse(remaining) == remaining > 0

\* a remaining that is not clamped at 0
ShownRemainingUnclamped(remaining) == remaining

\* checkUsageLimit, line 88
ShownRemaining(remaining) == Max(0, remaining)

\* checkUsageLimit: what it returns, and the store it leaves
checkUsageLimit(ls, day) ==
    LET remaining == MAX_DAILY_USAGE - CountAfterReset(ls, day)
    IN  [canUse    |-> CanUse(remaining),
         remaining |-> ShownRemaining(remaining),
         ls        |-> StoreAfterReset(ls, day)]

\* what the caller of checkUsageLimit sees
Returned(check) == [canUse |-> check.canUse, remaining |-> check.remaining]

\* incrementUsage
incrementUsage(ls, day) ==
    LET usageCount == parseInt(StoredCountString(ls)) + 1
    IN  setItem(setItem(ls, USAGE_KEY, NumberToString(usageCount)),
                USAGE_DATE_KEY, toDateString(day))

----------------------------------------------------------------------------
(* Language Heuristics *)

\* a comparison that ignores accents as well as case: the letter without
\* its diacritic, in upper case
CanonicalizeFoldsAccents(ch) ==
    IF ch \in 97..122 THEN ch - 32
    ELSE IF ch \in (224..229) \cup (192..197) THEN 65
    ELSE IF ch \in (232..235) \cup (200..203) THEN 69
    ELSE IF ch \in (236..239) \cup (204..207) THEN 73
    ELSE IF ch \in {241, 209} THEN 78
    ELSE IF ch \in (242..246) \cup (210..214) THEN 79
    ELSE IF ch \in (249..252) \cup (217..220) THEN 85
    ELSE IF ch \in 1072..1103 THEN ch - 32
    ELSE IF ch \in 1104..1119 THEN ch - 80
    ELSE ch

\* Canonicalize of a RegExp with the i flag and without the u flag: the
\* upper-case form when it is one character (Latin-1 and Cyrillic letters here)
Canonicalize(ch) ==
    IF ch \in 97..122 THEN ch - 32
    ELSE IF ch \in (224..254) \ {247} THEN ch - 32
    ELSE IF ch \in 1072..1103 THEN ch - 32
    ELSE IF ch \in 1104..1119 THEN ch - 80
    ELSE ch

\* the patterns of detectLanguage in the order of the object literal:
\* the tag, the characters of the class, whether the i flag is set
patterns ==
    << [lang |-> "es", class |-> {241, 225, 233, 237, 243, 250, 252}, i |-> TRUE],
       [lang |-> "fr", class |-> {224, 225, 226, 228, 231, 233, 232, 234, 235,
                                  237, 238, 239, 244, 246, 249, 250, 251, 252},
                       i |-> TRUE],
       [lang |-> "de", class |-> {228, 246, 252, 223}, i |-> TRUE],
       [lang |-> "it", class |-> {224, 225, 232, 233, 236, 237, 238, 242, 243,
                                  249, 250}, i |-> TRUE],
       [lang |-> "pt", class |-> {227, 231, 225, 224, 233, 234, 237, 244, 245,
                                  250}, i |-> TRUE],
       [lang |-> "ru", class |-> (1072..1103) \cup {1105}, i |-> TRUE],
       [lang |-> "zh", class |-> 19968..40959, i |-> FALSE],
       [lang |-> "ja", class |-> (12352..12447) \cup (12448..12543), i |-> FALSE],
       [lang |-> "ko", class |-> 44032..55215, i |-> FALSE],
       [lang |-> "ar", class |-> 1536..1791, i |-> FALSE],
       [lang |-> "hi", class |-> 2304..2431, i |-> FALSE] >>

\* pattern.test(text)
PatternTest(pattern, text) ==
    \E k \in 1..Len(text) :
        IF pattern.i
        THEN \E c \in pattern.class : Canonicalize(c) = Canonicalize(text[k])
        ELSE text[k] \in pattern.class

\* a loop that keeps the tag of the last pattern that matches
RECURSIVE LastMatch(_, _)
LastMatch(k, text) ==
    IF k > Len(patterns) THEN "en"
    ELSE LET later == LastMatch(k + 1, text)
         IN  IF later # "en" THEN later
             ELSE IF PatternTest(patterns[k], text) THEN patterns[k].lang
             ELSE "en"

RECURSIVE FirstMatch(_, _)
FirstMatch(k, text) ==
    IF k > Len(patterns) THEN "en"
    ELSE IF PatternTest(patterns[k], text) THEN patterns[k].lang
    ELSE FirstMatch(k + 1, text)

detectLanguage(text) == FirstMatch(1, text)

(* Translation Adapter *)

\* a stub that marks what it was asked to translate: text + "*"
translateTextMarked(text, fromLang, toLang) ==
    IF fromLang = toLang THEN text ELSE text \o <<42>>

translateText(text, fromLang, toLang) ==
    IF fromLang = toLang THEN text
    ELSE IF fromLang # "en" /\ toLang = "en" THEN text
    ELSE text

----------------------------------------------------------------------------
(* Generation Client: the error generateResponse throws for a provider    *)
(* failure.  A provider error is <<>> when it carries no message, and      *)
(* <<m>> when its message holds exactly the marker substrings in m.        *)

Includes(error, substring) == error # <<>> /\ substring \in error[1]

\* the message of the DOMException that a refused localStorage throws
StorageError == "The operation is insecure."

LIMIT_EXCEEDED == "LIMIT_EXCEEDED"
API_QUOTA_EXCEEDED == "API_QUOTA_EXCEEDED"
INVALID_API_KEY == "INVALID_API_KEY"
API_FORBIDDEN == "API access forbidden. Please check your Gemini account permissions."
GENERATION_FAILED == "Failed to generate response. Please try again."

ClassifyError(error) ==
    IF Includes(error, "quota") \/ Includes(error, "RESOURCE_EXHAUSTED")
    THEN API_QUOTA_EXCEEDED
    ELSE IF Includes(error, "API key") \/ Includes(error, "INVALID_ARGUMENT")
    THEN INVALID_API_KEY
    ELSE IF Includes(error, "forbidden")
    THEN API_FORBIDDEN
    ELSE GENERATION_FAILED

\* result.response.text() || "Unable to generate response."
ResponseText(text) ==
    IF text = <<>>
    THEN [tpl |-> "Unable to generate response.", arg |-> <<>>]
    ELSE [tpl |-> "{0}", arg |-> text]

\* result.response.text() || "Unable to analyze image."
AnalysisText(text) ==
    IF text = <<>>
    THEN [tpl |-> "Unable to analyze image.", arg |-> <<>>]
    ELSE [tpl |-> "{0}", arg |-> text]

\* the truthiness of an optional string argument: given and not ""
Truthy(optional) == optional # <<>> /\ optional[1] # <<>>

\* the arguments of generateResponse; context, fileContent and isImage are
\* <<>> when not given
Arguments(prompt, context, fileContent, isImage) ==
    [prompt |-> prompt, context |-> context, fileContent |-> fileContent,
     isImage |-> isImage]

\* generateResponse, lines 113-117 and 143: the prompt of the text request
FullPrompt(args) ==
    IF Truthy(args.fileContent)
    THEN [tpl  |-> "Based on this document content:\n\n{0}\n\nUser question: {1}",
          args |-> <<args.fileContent[1], args.prompt>>]
    ELSE IF Truthy(args.context)
    THEN [tpl  |-> "Context: {0}\n\nUser: {1}",
          args |-> <<args.context[1], args.prompt>>]
    ELSE [tpl |-> "{0}", args |-> <<args.prompt>>]

\* generateResponse, lines 125-132: the inline data taken from the data URL
InlineData(fileContent) ==
    [data     |-> At(Split(fileContent, 44), 1),
     mimeType |-> At(Split(At(Split(fileContent, 59), 0)[1], 58), 1)]

\* generateResponse, lines 119-120: the image branch is taken
IsImagePath(args) ==
    Truthy(args.fileContent) /\ args.isImage = <<TRUE>>

\* generateResponse, lines 111-149: what is given to model.generateContent
BuildRequest(args) ==
    IF IsImagePath(args)
    THEN [parts |-> << [tpl  |-> "Analyze this image and answer: {0}",
                        args |-> <<args.prompt>>] >>,
          inlineData |-> <<InlineData(args.fileContent[1])>>]
    ELSE [parts |-> <<FullPrompt(args)>>, inlineData |-> <<>>]


\* a generateResponse whose quota check sits inside the try block, so that
\* its LIMIT_EXCEEDED passes through the catch block's classification
GenerateStartInsideTry(ls, day) ==
    LET check == checkUsageLimit(ls, day)
    IN  [ls    |-> check.ls,
         threw |-> IF ~check.canUse
                   THEN <<ClassifyError(<<{LIMIT_EXCEEDED}>>)>>
                   ELSE <<>>]

\* generateResponse, lines 105-109: the quota check before the try block;
\* the store it leaves and the error it throws, if any
GenerateStart(ls, day) ==
    LET check == checkUsageLimit(ls, day)
    IN  [ls    |-> check.ls,
         threw |-> IF ~check.canUse THEN <<LIMIT_EXCEEDED>> ELSE <<>>]

\* a generateResponse that records the use of a failed call too
GenerateCatchCounted(ls, day, error) ==
    [ls |-> incrementUsage(ls, day), threw |-> ClassifyError(error)]

\* generateResponse, lines 153-166: the catch block; the store it leaves
\* and the error it throws when the provider call rejected with error
GenerateCatch(ls, day, error) ==
    [ls |-> ls, threw |-> ClassifyError(error)]

\* a generateResponse whose image branch forgets incrementUsage
GenerateReturnTextCounted(ls, day, request, text) ==
    IF request.inlineData # <<>>
    THEN [ls |-> ls, returned |-> AnalysisText(text)]
    ELSE [ls |-> incrementUsage(ls, day), returned |-> ResponseText(text)]

\* generateResponse, lines 139-140 and 151-152: the provider's answer to
\* request is counted and returned
GenerateReturn(ls, day, request, text) ==
    [ls       |-> incrementUsage(ls, day),
     returned |-> IF request.inlineData # <<>>
                  THEN AnalysisText(text)
                  ELSE ResponseText(text)]

----------------------------------------------------------------------------
(* The inputs of the model *)

\* " " and "hi"
Texts == {<<32>>, <<104, 105>>}

\* navigator.language.split('-')[0]
VoiceLangs == {"en", "es"}

\* what is typed into the credential prompt: " ", "k", " k"
KeyInputs == {<<32>>, <<107>>, <<32, 107>>}

\* the provider's replies: "" and "OK"
Replies == {<<>>, <<79, 75>>}

\* the provider's failures
ProviderErrors ==
    { <<>>, <<{}>>, <<{"quota"}>>, <<{"RESOURCE_EXHAUSTED"}>>, <<{"API key"}>>,
      <<{"INVALID_ARGUMENT"}>>, <<{"forbidden"}>>, <<{"PERMISSION_DENIED"}>>,
      <<{"quota", "API key"}>>, <<{"API key", "forbidden"}>> }

----------------------------------------------------------------------------
(* Conversation Orchestrator: ChatTurns *)

Plain(text) == [tpl |-> "{0}", arg |-> text]

LimitReachedText(remaining) ==
    [tpl |-> "Daily usage limit reached (4 times). Try again tomorrow! You have {0} uses remaining.",
     arg |-> NumberToString(remaining)]

LimitKeyText ==
    [tpl |-> "Daily usage limit reached. Please enter a new API key to continue chatting.",
     arg |-> <<>>]

InvalidKeyText ==
    [tpl |-> "Invalid API key. Please enter a valid Gemini API key.", arg |-> <<>>]

ApologyText ==
    [tpl |-> "Sorry, I encountered an error processing your request. Please try again.",
     arg |-> <<>>]

KeyUpdatedText ==
    [tpl |-> "API key updated successfully! You can now continue chatting.",
     arg |-> <<>>]

\* a setMessages that puts the new ChatTurn first
addMessagePrepends(prev, text, isUser, language) ==
    <<[id        |-> NumberToString(now),
       text      |-> text,
       isUser    |-> isUser,
       timestamp |-> now,
       language  |-> language]>> \o prev

\* addMessage, lines 51-62: setMessages(prev => [...prev, newMessage]),
\* the id being Date.now().toString() and the timestamp new Date()
addMessage(prev, text, isUser, language) ==
    Append(prev, [id        |-> NumberToString(now),
                  text      |-> text,
                  isUser    |-> isUser,
                  timestamp |-> now,
                  language  |-> language])

\* ChatTurns still to be appended by the invocations under way
Owed == Len(inFlight) + Len(calling)

\* the model's bounds leave room for n more ChatTurns
Room(n) == Len(messages) + Owed + n <= MaxMessages

\* no handler runs before the mount effect, nor between an invocation's
\* first await and its call of generateResponse (no task is dispatched
\* while promise continuations are pending)
EventLoopFree == mounted /\ calling = <<>>

----------------------------------------------------------------------------
(* Environment *)

\* the store as used by earlier sessions: count on day
UsedStore(count, day) ==
    setItem(setItem(EmptyStorage, USAGE_KEY, NumberToString(count)),
            USAGE_DATE_KEY, toDateString(day))

\* what a session finds in the store: nothing (a fresh profile), one use
\* left today, or yesterday's exhausted quota
InitialStores ==
    { EmptyStorage,
      UsedStore(MAX_DAILY_USAGE - 1, 1),
      UsedStore(MAX_DAILY_USAGE, 0) }

\* the state of the components at construction, nothing called yet
InitComponents ==
    /\ today = 1
    /\ otherTabUses = 0
    /\ mounted = FALSE
    /\ messages = <<>>
    /\ isLoading = FALSE
    /\ usageInfo = [canUse |-> TRUE, remaining |-> 4]
    /\ showApiKeyModal = FALSE
    /\ isLimitExceeded = FALSE
    /\ calling = <<>>
    /\ inFlight = <<>>
    /\ recState = "none"
    /\ isListening = FALSE
    /\ isProcessing = FALSE
    /\ subState = "none"
    /\ svcPending = 0
    /\ svcCheck = <<>>
    /\ svcResult = [threw |-> <<>>, returned |-> <<>>]
    /\ uploadedFiles = <<>>
    /\ voiceFiles = <<>>
    /\ detected = <<>>
    /\ translated = <<>>
    /\ genPending = <<>>
    /\ showFileUpload = FALSE
    /\ processing = {}
    /\ now = 0
    /\ storageDisabled = FALSE
    /\ uncaught = <<>>
    /\ conversations = <<>>
    /\ dbNow = 0
    /\ dbRead = <<>>

Init ==
    /\ InitComponents
    /\ localStorage \in InitialStores
    /\ langText = <<>>
    /\ langFrom = "en"
    /\ langTo = "en"

\* midnight passes
NextDay ==
    /\ today < MaxDay
    /\ today' = today + 1
    /\ UNCHANGED <<dbVars, hostVars, fileVars, langVars, genVars, localStorage, appVars, otherTabUses, svcVars>>

\* the browser starts to refuse window.localStorage (site data blocked):
\* every getItem and setItem throws from now on
StorageDenied ==
    /\ ~storageDisabled
    /\ storageDisabled' = TRUE
    /\ UNCHANGED <<dbVars, now, uncaught, fileVars, langVars, genVars,
                   today, localStorage, appVars, otherTabUses, svcVars>>

\* a millisecond passes on the browser's clock
Tick ==
    /\ now < MaxNow
    /\ now' = now + 1
    /\ UNCHANGED <<dbVars, storageDisabled, uncaught, fileVars, langVars,
                   genVars, today, localStorage, appVars, otherTabUses,
                   svcVars>>

\* another tab of the same browser profile, sharing the store, runs
\* generateResponse to its end: the quota check passes, the provider
\* answers, incrementUsage writes the count
OtherTabGenerates ==
    /\ otherTabUses < MaxOtherTabUses
    /\ GenerateStart(localStorage, today).threw = <<>>
    /\ localStorage' = incrementUsage(GenerateStart(localStorage, today).ls, today)
    /\ otherTabUses' = otherTabUses + 1
    /\ UNCHANGED <<dbVars, hostVars, fileVars, langVars, genVars, today, appVars, svcVars>>

----------------------------------------------------------------------------
(* Conversation Orchestrator *)

\* useEffect(() => { setUsageInfo(checkUsageLimit()) }, [])
\* with the store refused, checkUsageLimit throws inside the effect: no
\* error boundary is rendered, so React unmounts the tree
Mount ==
    /\ ~mounted
    /\ uncaught # <<"effect">>
    /\ IF storageDisabled
       THEN /\ uncaught' = <<"effect">>
            /\ UNCHANGED <<localStorage, usageInfo, mounted>>
       ELSE LET check == checkUsageLimit(localStorage, today)
            IN  /\ localStorage' = check.ls
                /\ usageInfo' = Returned(check)
                /\ mounted' = TRUE
                /\ UNCHANGED uncaught
    /\ UNCHANGED <<dbVars, now, storageDisabled, fileVars, langVars, genVars, today, messages, isLoading, showApiKeyModal, isLimitExceeded,
                   calling, inFlight, voiceVars, subState, otherTabUses, svcVars>>

\* a catch block that knows API_QUOTA_EXCEEDED only
IsLimitErrorProviderOnly(message) == message = API_QUOTA_EXCEEDED

\* handleSendMessage, line 124
IsLimitError(message) ==
    message = LIMIT_EXCEEDED \/ message = API_QUOTA_EXCEEDED

\* the catch block of handleSendMessage, lines 121-146
CatchBlock(message, detectedLang) ==
    IF IsLimitError(message)
    THEN /\ isLimitExceeded' = TRUE
         /\ showApiKeyModal' = TRUE
         /\ messages' = addMessage(messages, LimitKeyText, FALSE, detectedLang)
         /\ subState' = "LimitExceeded"
    ELSE IF message = INVALID_API_KEY
    THEN /\ isLimitExceeded' = FALSE
         /\ showApiKeyModal' = TRUE
         /\ messages' = addMessage(messages, InvalidKeyText, FALSE, detectedLang)
         /\ subState' = "CredentialInvalid"
    ELSE /\ messages' = addMessage(messages, ApologyText, FALSE, detectedLang)
         /\ UNCHANGED <<isLimitExceeded, showApiKeyModal, subState>>

\* a handleSendMessage that clears the loading flag nowhere
FinallyBlockMissing == UNCHANGED isLoading

\* the finally block of handleSendMessage, lines 147-149
FinallyBlock == isLoading' = FALSE

\* a handleSendMessage without its pre-flight check
QuotaBlockedNever(currentUsage) == FALSE

\* handleSendMessage, line 69
QuotaBlocked(currentUsage) == ~currentUsage.canUse

\* handleSendMessage, line 85
UserLanguage(text, detectedLang) ==
    IF detectedLang = "en" THEN detectLanguage(text) ELSE detectedLang

\* handleSendMessage, lines 88-95: the content and kind of the latest of files
FileContext(files) == IF Len(files) > 0 THEN files[Len(files)].content ELSE <<>>
IsImageQuery(files) == IF Len(files) > 0 THEN files[Len(files)].isImage ELSE FALSE

\* handleSendMessage, lines 98-100
EnglishText(text, userLanguage) ==
    IF userLanguage # "en" THEN translateText(text, userLanguage, "en") ELSE text

\* handleSendMessage, lines 64-85: up to its first await; files is the
\* uploadedFiles of the render whose handler was called. With the store
\* refused, checkUsageLimit throws at line 68, before the try block: the
\* promise of the handler rejects and nothing handles it
handleSendMessage(text, detectedLang, files) ==
    IF Trim(text) = <<>>
    THEN UNCHANGED <<localStorage, messages, isLoading, calling, uncaught>>
    ELSE IF storageDisabled
    THEN /\ uncaught' = <<"promise">>
         /\ UNCHANGED <<localStorage, messages, isLoading, calling>>
    ELSE LET currentUsage == checkUsageLimit(localStorage, today)
         IN  /\ localStorage' = currentUsage.ls
             /\ UNCHANGED uncaught
             /\ IF QuotaBlocked(currentUsage)
                THEN /\ Room(1)
                     /\ messages' = addMessage(messages,
                                        LimitReachedText(currentUsage.remaining),
                                        FALSE, detectedLang)
                     /\ UNCHANGED <<isLoading, calling>>
                ELSE /\ Room(2)
                     /\ Len(inFlight) < MaxInFlight
                     /\ messages' = addMessage(messages, Plain(text), TRUE,
                                               detectedLang)
                     /\ isLoading' = TRUE
                     /\ calling' =
                          << [text         |-> text,
                              detectedLang |-> detectedLang,
                              userLanguage |-> UserLanguage(text, detectedLang),
                              fileContext  |-> FileContext(files),
                              isImageQuery |-> IsImageQuery(files)] >>

\* handleSendMessage, lines 103-108: the request that the call
\* generateResponse(englishText, undefined, fileContext, isImageQuery) of
\* submission awaits
Dispatched(submission) ==
    [text         |-> submission.text,
     detectedLang |-> submission.detectedLang,
     userLanguage |-> submission.userLanguage,
     request      |-> BuildRequest(Arguments(
                          EnglishText(submission.text, submission.userLanguage),
                          <<>>, <<submission.fileContext>>,
                          <<submission.isImageQuery>>))]

\* handleSendMessage, lines 87-108, and generateResponse, lines 99-149: the
\* call of generateResponse, which checks the quota and then dispatches the
\* request, or throws LIMIT_EXCEEDED, or the error of a refused store, into
\* the catch block
CallGenerate ==
    /\ calling # <<>>
    /\ LET start == IF storageDisabled
                    THEN [ls |-> localStorage, threw |-> <<StorageError>>]
                    ELSE GenerateStart(localStorage, today)
       IN  /\ localStorage' = start.ls
           /\ calling' = <<>>
           /\ IF start.threw # <<>>
              THEN /\ CatchBlock(start.threw[1], calling[1].detectedLang)
                   /\ FinallyBlock
                   /\ UNCHANGED inFlight
              ELSE /\ inFlight' = Append(inFlight, Dispatched(calling[1]))
                   /\ UNCHANGED <<messages, isLoading, showApiKeyModal,
                                  isLimitExceeded, subState>>
    /\ UNCHANGED <<dbVars, hostVars, fileVars, langVars, genVars, today, mounted, usageInfo, voiceVars, otherTabUses, svcVars>>

Remove(seq, i) == SubSeq(seq, 1, i - 1) \o SubSeq(seq, i + 1, Len(seq))

\* generateResponse, lines 149-152, and handleSendMessage, lines 110-119 and
\* 147-149: the provider answers the i-th request with text
ProviderReplies(i, text) ==
    /\ EventLoopFree
    /\ i \in 1..Len(inFlight)
    /\ ~storageDisabled
    /\ LET done == GenerateReturn(localStorage, today, inFlight[i].request, text)
           userLanguage == inFlight[i].userLanguage
           translatedResponse ==
               IF userLanguage # "en"
               THEN translateText(done.returned, "en", userLanguage)
               ELSE done.returned
           check == checkUsageLimit(done.ls, today)
       IN  /\ messages' = addMessage(messages, translatedResponse, FALSE,
                                     userLanguage)
           /\ localStorage' = check.ls
           /\ usageInfo' = Returned(check)
    /\ FinallyBlock
    /\ inFlight' = Remove(inFlight, i)
    /\ UNCHANGED <<dbVars, hostVars, fileVars, langVars, genVars, today, mounted, showApiKeyModal, isLimitExceeded, calling,
                   voiceVars, subState, otherTabUses, svcVars>>

\* generateResponse, lines 139 and 151 and 153-166, and handleSendMessage,
\* lines 121-149: the provider answers the i-th request, and incrementUsage
\* throws the error of a refused store into the catch block
ProviderRepliesUncounted(i) ==
    /\ EventLoopFree
    /\ i \in 1..Len(inFlight)
    /\ storageDisabled
    /\ CatchBlock(ClassifyError(<<{}>>), inFlight[i].detectedLang)
    /\ FinallyBlock
    /\ inFlight' = Remove(inFlight, i)
    /\ UNCHANGED <<dbVars, hostVars, fileVars, langVars, genVars, today, localStorage, mounted, usageInfo, calling, voiceVars,
                   otherTabUses, svcVars>>

\* generateResponse, lines 153-166, and handleSendMessage, lines 121-149:
\* the provider fails the i-th request with error
ProviderFails(i, error) ==
    /\ EventLoopFree
    /\ i \in 1..Len(inFlight)
    /\ LET caught == GenerateCatch(localStorage, today, error)
       IN  /\ localStorage' = caught.ls
           /\ CatchBlock(caught.threw, inFlight[i].detectedLang)
    /\ FinallyBlock
    /\ inFlight' = Remove(inFlight, i)
    /\ UNCHANGED <<dbVars, hostVars, fileVars, langVars, genVars, today, mounted, usageInfo, calling, voiceVars,
                   otherTabUses, svcVars>>

\* the Send button, lines 324-331 (the text typed into the input before)
SendButtonClick(text) ==
    /\ EventLoopFree
    /\ ~showApiKeyModal
    /\ ~(isLoading \/ Trim(text) = <<>> \/ ~usageInfo.canUse)
    /\ handleSendMessage(text, "en", uploadedFiles)
    /\ UNCHANGED <<dbVars, now, storageDisabled, fileVars, langVars, genVars, today, mounted, usageInfo, showApiKeyModal, isLimitExceeded,
                   inFlight, voiceVars, subState, otherTabUses, svcVars>>

\* the Enter key in the input, lines 302-315 (disabled while isLoading)
InputEnterKey(text) ==
    /\ EventLoopFree
    /\ ~showApiKeyModal
    /\ ~isLoading
    /\ handleSendMessage(text, "en", uploadedFiles)
    /\ UNCHANGED <<dbVars, now, storageDisabled, fileVars, langVars, genVars, today, mounted, usageInfo, showApiKeyModal, isLimitExceeded,
                   inFlight, voiceVars, subState, otherTabUses, svcVars>>

\* a handleApiKeySubmit without its setUsageInfo(checkUsageLimit())
handleApiKeySubmitNoRefresh(apiKey) ==
    /\ Room(1)
    /\ localStorage' = setApiKey(localStorage, apiKey, today)
    /\ UNCHANGED usageInfo
    /\ isLimitExceeded' = FALSE
    /\ messages' = addMessage(messages, KeyUpdatedText, FALSE, "en")
    /\ subState' = "none"

\* handleApiKeySubmit, lines 187-196
handleApiKeySubmit(apiKey) ==
    LET check == checkUsageLimit(setApiKey(localStorage, apiKey, today), today)
    IN  /\ Room(1)
        /\ localStorage' = check.ls
        /\ usageInfo' = Returned(check)
        /\ isLimitExceeded' = FALSE
        /\ messages' = addMessage(messages, KeyUpdatedText, FALSE, "en")
        /\ subState' = "none"

\* the header's API Key button, line 220
ApiKeyButtonClick ==
    /\ EventLoopFree
    /\ ~showApiKeyModal
    /\ showApiKeyModal' = TRUE
    /\ UNCHANGED <<dbVars, hostVars, fileVars, langVars, genVars, today, localStorage, mounted, messages, isLoading, usageInfo,
                   isLimitExceeded, calling, inFlight, voiceVars, subState,
                   otherTabUses, svcVars>>

\* ApiKeyModal onClose (Cancel, Escape, a click outside), line 369
ApiKeyModalClose ==
    /\ EventLoopFree
    /\ showApiKeyModal
    /\ showApiKeyModal' = FALSE
    /\ UNCHANGED <<dbVars, hostVars, fileVars, langVars, genVars, today, localStorage, mounted, messages, isLoading, usageInfo,
                   isLimitExceeded, calling, inFlight, voiceVars, subState,
                   otherTabUses, svcVars>>

\* ApiKeyModal.handleSubmit with apiKey typed into its input; with the
\* store refused, setApiKey throws out of onSubmit into the catch block of
\* handleSubmit, which logs it: the prompt stays open, nothing is stored
ApiKeyModalSubmit(apiKey) ==
    /\ EventLoopFree
    /\ showApiKeyModal
    /\ IF Trim(apiKey) = <<>> \/ storageDisabled
       THEN UNCHANGED <<localStorage, uiVars, subState>>
       ELSE /\ handleApiKeySubmit(Trim(apiKey))
            /\ showApiKeyModal' = FALSE
            /\ UNCHANGED isLoading
    /\ UNCHANGED <<dbVars, hostVars, fileVars, langVars, genVars, today, mounted, calling, inFlight, voiceVars, otherTabUses, svcVars>>

----------------------------------------------------------------------------
(* File upload *)

\* String.prototype.endsWith
EndsWith(s, suffix) ==
    Len(s) >= Len(suffix) /\ SubSeq(s, Len(s) - Len(suffix) + 1, Len(s)) = suffix

\* a File: its name, its type, and its bytes as readAsDataURL encodes them
\* (an image) or as text extraction reads them (a document)
File(name, type, payload) == [name |-> name, type |-> type, payload |-> payload]

\* photo.png (image/png), notes.txt ("d") and empty.txt ("")
Files ==
    { File(<<112, 104, 111, 116, 111, 46, 112, 110, 103>>, <<105, 109, 97, 103, 101, 47, 112, 110, 103>>,
           <<81, 81>>),
      File(<<110, 111, 116, 101, 115, 46, 116, 120, 116>>, <<116, 101, 120, 116, 47, 112, 108, 97, 105, 110>>,
           <<100>>),
      File(<<101, 109, 112, 116, 121, 46, 116, 120, 116>>, <<116, 101, 120, 116, 47, 112, 108, 97, 105, 110>>,
           <<>>) }

\* what is dropped on the drop zone at once: one file, or all of them
Drops == {{file} : file \in Files} \cup {Files}

\* FileReader.readAsDataURL: data:<type>;base64,<payload>
DataURL(file) ==
    <<100, 97, 116, 97, 58>> \o file.type \o <<59, 98, 97, 115, 101, 54, 52, 44>>
        \o file.payload

\* pdf-parse and mammoth.extractRawText: <<text>>, or <<>> when the parser
\* throws on bytes that are no document (here: a payload that begins with
\* the byte 0)
Extracted(payload) ==
    IF payload # <<>> /\ payload[1] = 0 THEN <<>> ELSE <<payload>>

\* processFile, lines 20-46: <<content>>, or <<>> when it throws (a parser
\* error, or Unsupported file type)
ProcessedContent(file) ==
    IF IncludesText(file.type, <<105, 109, 97, 103, 101>>)
    THEN <<DataURL(file)>>
    ELSE IF file.type = <<97, 112, 112, 108, 105, 99, 97, 116, 105, 111, 110, 47, 112, 100, 102>>
    THEN Extracted(file.payload)
    ELSE IF IncludesText(file.type, <<111, 102, 102, 105, 99, 101, 100, 111, 99, 117, 109, 101, 110, 116, 46, 119, 111, 114, 100, 112, 114, 111, 99, 101, 115, 115, 105, 110, 103, 109, 108>>)
            \/ EndsWith(file.name, <<46, 100, 111, 99, 120>>)
    THEN Extracted(file.payload)
    ELSE IF file.type = <<116, 101, 120, 116, 47, 112, 108, 97, 105, 110>>
            \/ EndsWith(file.name, <<46, 116, 120, 116>>)
    THEN <<file.payload>>
    ELSE <<>>

UploadedText(name) ==
    [tpl |-> "File \"{0}\" uploaded successfully! You can now ask questions about its content.",
     arg |-> name]

\* a handleFileUpload that keeps the previous files:
\* setUploadedFiles(prev => [...prev, uploadedFile])
handleFileUploadAppends(file, content) ==
    /\ Room(1)
    /\ uploadedFiles' =
          Append(uploadedFiles,
                 [name    |-> file.name,
                  content |-> content,
                  isImage |-> IncludesText(file.type, <<105, 109, 97, 103, 101>>)])
    /\ showFileUpload' = FALSE
    /\ messages' = addMessage(messages, UploadedText(file.name), FALSE, "en")

\* handleFileUpload, lines 156-173
handleFileUpload(file, content) ==
    /\ Room(1)
    /\ uploadedFiles' =
          << [name    |-> file.name,
              content |-> content,
              isImage |-> IncludesText(file.type, <<105, 109, 97, 103, 101>>)] >>
    /\ showFileUpload' = FALSE
    /\ messages' = addMessage(messages, UploadedText(file.name), FALSE, "en")

\* WelcomeScreen onShowFileUpload, line 269; the welcome screen is there
\* while the history is empty
ShowFileUploadClick ==
    /\ EventLoopFree
    /\ ~showApiKeyModal
    /\ messages = <<>>
    /\ ~showFileUpload
    /\ showFileUpload' = TRUE
    /\ UNCHANGED <<dbVars, hostVars, today, localStorage, mounted, uiVars, calling, inFlight,
                   voiceVars, subState, otherTabUses, svcVars, langVars, genVars,
                   uploadedFiles, voiceFiles, processing>>

\* handleDrop and handleFileInput: files.forEach(processFile)
FilesDropped(files) ==
    /\ EventLoopFree
    /\ ~showApiKeyModal
    /\ showFileUpload
    /\ processing = {}
    /\ processing' = files
    /\ UNCHANGED <<dbVars, hostVars, today, localStorage, mounted, uiVars, calling, inFlight,
                   voiceVars, subState, otherTabUses, svcVars, langVars, genVars,
                   uploadedFiles, voiceFiles, showFileUpload>>

\* processFile, lines 48-55: the content of file has been read
ProcessFileDone(file) ==
    /\ EventLoopFree
    /\ file \in processing
    /\ processing' = processing \ {file}
    /\ IF ProcessedContent(file) # <<>>
       THEN handleFileUpload(file, ProcessedContent(file)[1])
       ELSE UNCHANGED <<uploadedFiles, showFileUpload, messages>>
    /\ UNCHANGED <<dbVars, hostVars, today, localStorage, mounted, isLoading, usageInfo,
                   showApiKeyModal, isLimitExceeded, calling, inFlight,
                   voiceVars, subState, otherTabUses, svcVars, langVars, genVars,
                   voiceFiles>>

\* removeFile, lines 183-185, from the button of the file indicator
RemoveFileClick(fileName) ==
    /\ EventLoopFree
    /\ ~showApiKeyModal
    /\ \E k \in 1..Len(uploadedFiles) : uploadedFiles[k].name = fileName
    /\ uploadedFiles' = SelectSeq(uploadedFiles, LAMBDA f : f.name # fileName)
    /\ UNCHANGED <<dbVars, hostVars, today, localStorage, mounted, uiVars, calling, inFlight,
                   voiceVars, subState, otherTabUses, svcVars, langVars, genVars,
                   voiceFiles, showFileUpload, processing>>

----------------------------------------------------------------------------
(* Voice button *)

\* handleClick: stopListening while listening, startListening otherwise
\* (one SpeechRecognition object at a time); the onresult handler that
\* startListening installs calls the onVoiceInput of the render it was
\* created in, and with it that render's uploadedFiles
VoiceButtonClick ==
    /\ EventLoopFree
    /\ ~showApiKeyModal
    /\ ~isProcessing
    /\ IF isListening
       THEN /\ isListening' = FALSE
            /\ UNCHANGED <<recState, voiceFiles>>
       ELSE /\ recState = "none"
            /\ recState' = "starting"
            /\ voiceFiles' = uploadedFiles
            /\ UNCHANGED isListening
    /\ UNCHANGED <<dbVars, hostVars, uploadedFiles, showFileUpload, processing, langVars, genVars, today, localStorage, mounted, uiVars, calling, inFlight,
                   isProcessing, subState, otherTabUses, svcVars>>

RecognitionOnStart ==
    /\ EventLoopFree
    /\ recState = "starting"
    /\ recState' = "listening"
    /\ isListening' = TRUE
    /\ isProcessing' = FALSE
    /\ UNCHANGED <<dbVars, hostVars, fileVars, langVars, genVars, today, localStorage, mounted, uiVars, calling, inFlight,
                   subState, otherTabUses, svcVars>>

\* recognition.onresult: onVoiceInput -> handleVoiceInput -> handleSendMessage
RecognitionOnResult(transcript, detectedLanguage) ==
    /\ EventLoopFree
    /\ recState = "listening"
    /\ recState' = "result"
    /\ isProcessing' = TRUE
    /\ handleSendMessage(transcript, detectedLanguage, voiceFiles)
    /\ UNCHANGED <<dbVars, now, storageDisabled, fileVars, langVars, genVars, today, mounted, usageInfo, showApiKeyModal, isLimitExceeded,
                   inFlight, isListening, subState, otherTabUses, svcVars>>

\* recognition.onerror, and the onend that follows it
RecognitionOnError ==
    /\ EventLoopFree
    /\ recState \in {"starting", "listening"}
    /\ recState' = "none"
    /\ isListening' = FALSE
    /\ isProcessing' = FALSE
    /\ UNCHANGED <<dbVars, hostVars, fileVars, langVars, genVars, today, localStorage, mounted, uiVars, calling, inFlight,
                   subState, otherTabUses, svcVars>>

RecognitionOnEnd ==
    /\ EventLoopFree
    /\ recState \in {"listening", "result"}
    /\ recState' = "none"
    /\ isListening' = FALSE
    /\ isProcessing' = FALSE
    /\ UNCHANGED <<dbVars, hostVars, fileVars, langVars, genVars, today, localStorage, mounted, uiVars, calling, inFlight,
                   subState, otherTabUses, svcVars>>

----------------------------------------------------------------------------
(* The application in one tab through one calendar day, another tab      *)
(* sharing its store                                                      *)

Next ==
    \/ OtherTabGenerates
    \/ Mount
    \/ \E text \in Texts : SendButtonClick(text)
    \/ \E text \in Texts : InputEnterKey(text)
    \/ CallGenerate
    \/ \E i \in 1..MaxInFlight, text \in Replies : ProviderReplies(i, text)
    \/ \E i \in 1..MaxInFlight, error \in ProviderErrors : ProviderFails(i, error)
    \/ ApiKeyButtonClick
    \/ ApiKeyModalClose
    \/ \E apiKey \in KeyInputs : ApiKeyModalSubmit(apiKey)
    \/ VoiceButtonClick
    \/ RecognitionOnStart
    \/ \E transcript \in Texts, lang \in VoiceLangs :
           RecognitionOnResult(transcript, lang)
    \/ RecognitionOnError
    \/ RecognitionOnEnd

Spec == Init /\ [][Next]_vars

\* the application in a single tab through one calendar day
NextTab ==
    \/ Mount
    \/ \E text \in Texts : SendButtonClick(text)
    \/ \E text \in Texts : InputEnterKey(text)
    \/ CallGenerate
    \/ \E i \in 1..MaxInFlight, text \in Replies : ProviderReplies(i, text)
    \/ \E i \in 1..MaxInFlight, error \in ProviderErrors : ProviderFails(i, error)
    \/ ApiKeyButtonClick
    \/ ApiKeyModalClose
    \/ \E apiKey \in KeyInputs : ApiKeyModalSubmit(apiKey)
    \/ VoiceButtonClick
    \/ RecognitionOnStart
    \/ \E transcript \in Texts, lang \in VoiceLangs :
           RecognitionOnResult(transcript, lang)
    \/ RecognitionOnError
    \/ RecognitionOnEnd

SpecTab == Init /\ [][NextTab]_vars

\* the provider settles every request it was given: the promise awaited at
\* line 103 of handleSendMessage resolves or rejects
ProviderSettles ==
    \/ \E i \in 1..MaxInFlight, text \in Replies : ProviderReplies(i, text)
    \/ \E i \in 1..MaxInFlight, error \in ProviderErrors : ProviderFails(i, error)

\* the single tab on an event loop that runs every pending continuation
\* (the code after the awaits of lines 85-100), with a provider that
\* settles its requests
SpecTabFair ==
    SpecTab /\ WF_vars(CallGenerate) /\ WF_vars(ProviderSettles)

----------------------------------------------------------------------------
(* The service module driven through its exports by any caller, across    *)
(* calendar days                                                          *)

\* a caller runs checkUsageLimit()
SvcCheckUsageLimit ==
    /\ LET check == checkUsageLimit(localStorage, today)
       IN  /\ localStorage' = check.ls
           /\ svcCheck' =
                << [canUse    |-> check.canUse,
                    remaining |-> check.remaining,
                    day       |-> today,
                    read      |-> parseInt(StoredCountString(localStorage)),
                    newDay    |-> IsNewDay(localStorage, today),
                    again     |-> svcCheck # <<>>] >>
    /\ UNCHANGED <<dbVars, hostVars, fileVars, langVars, genVars, today, appVars, otherTabUses, svcPending, svcResult>>

\* a caller runs setApiKey(apiKey)
SvcSetApiKey(apiKey) ==
    /\ localStorage' = setApiKey(localStorage, apiKey, today)
    /\ svcCheck' = <<>>
    /\ UNCHANGED <<dbVars, hostVars, fileVars, langVars, genVars, today, appVars, otherTabUses, svcPending, svcResult>>

\* a caller runs generateResponse(...): it throws LIMIT_EXCEEDED or awaits
\* the provider
SvcGenerateResponse ==
    /\ LET start == GenerateStart(localStorage, today)
       IN  /\ localStorage' = start.ls
           /\ IF start.threw # <<>>
              THEN /\ svcResult' = [threw |-> start.threw, returned |-> <<>>]
                   /\ UNCHANGED svcPending
              ELSE /\ svcPending < MaxInFlight
                   /\ svcPending' = svcPending + 1
                   /\ UNCHANGED svcResult
    /\ UNCHANGED <<dbVars, hostVars, fileVars, langVars, genVars, today, appVars, otherTabUses, svcCheck>>

\* the provider answers a pending call, made with a prompt alone, with text
SvcProviderReplies(text) ==
    /\ svcPending > 0
    /\ LET request == BuildRequest(Arguments(<<104, 105>>, <<>>, <<>>, <<>>))
           done == GenerateReturn(localStorage, today, request, text)
       IN  /\ localStorage' = done.ls
           /\ svcResult' = [threw |-> <<>>, returned |-> <<done.returned>>]
    /\ svcPending' = svcPending - 1
    /\ svcCheck' = <<>>
    /\ UNCHANGED <<dbVars, hostVars, fileVars, langVars, genVars, today, appVars, otherTabUses>>

\* the provider fails a pending call with error
SvcProviderFails(error) ==
    /\ svcPending > 0
    /\ LET caught == GenerateCatch(localStorage, today, error)
       IN  /\ localStorage' = caught.ls
           /\ svcResult' = [threw |-> <<caught.threw>>, returned |-> <<>>]
    /\ svcPending' = svcPending - 1
    /\ UNCHANGED <<dbVars, hostVars, fileVars, langVars, genVars, today, appVars, otherTabUses, svcCheck>>

NextService ==
    \/ NextDay
    \/ SvcCheckUsageLimit
    \/ \E apiKey \in KeyInputs : SvcSetApiKey(apiKey)
    \/ SvcGenerateResponse
    \/ \E text \in Replies : SvcProviderReplies(text)
    \/ \E error \in ProviderErrors : SvcProviderFails(error)

SpecService == Init /\ [][NextService]_vars

----------------------------------------------------------------------------
(* One tab, with files, and turns in any language                         *)

\* "hola" and "n~"
TurnTexts == {<<104, 111, 108, 97>>, <<241>>}

\* the failure of the provider: an error without a message
TurnErrors == {<<>>}

NextTurn ==
    \/ Mount
    \/ ShowFileUploadClick
    \/ \E files \in Drops : FilesDropped(files)
    \/ \E file \in Files : ProcessFileDone(file)
    \/ \E file \in Files : RemoveFileClick(file.name)
    \/ \E text \in TurnTexts : SendButtonClick(text)
    \/ \E text \in TurnTexts : InputEnterKey(text)
    \/ CallGenerate
    \/ \E i \in 1..MaxInFlight, text \in Replies : ProviderReplies(i, text)
    \/ \E i \in 1..MaxInFlight, error \in TurnErrors : ProviderFails(i, error)
    \/ VoiceButtonClick
    \/ RecognitionOnStart
    \/ \E transcript \in TurnTexts, lang \in VoiceLangs :
           RecognitionOnResult(transcript, lang)
    \/ RecognitionOnError
    \/ RecognitionOnEnd

\* a fresh session: nothing stored, 4 uses remaining
InitTurn ==
    /\ InitComponents
    /\ localStorage = EmptyStorage
    /\ langText = <<>>
    /\ langFrom = "en"
    /\ langTo = "en"

SpecTurn == InitTurn /\ [][NextTurn]_vars

----------------------------------------------------------------------------
(* generateResponse called directly, one call at a time                   *)

\* "hi"
Prompts == {<<104, 105>>}

\* context: not given, "", "c"
Contexts == {<<>>, <<<<>>>>, <<<<99>>>>}

\* fileContent: not given, "", "d", the data URL of photo.png
FileContents ==
    {<<>>, <<<<>>>>, <<<<100>>>>} \cup
    {<<DataURL(file)>> : file \in {f \in Files : IncludesText(f.type, <<105, 109, 97, 103, 101>>)}}

\* isImage: not given, false, true
ImageFlags == {<<>>, <<FALSE>>, <<TRUE>>}

\* generateResponse(prompt, context, fileContent, isImage) up to its await
GenGenerateResponse(prompt, context, fileContent, isImage) ==
    /\ genPending = <<>>
    /\ LET start == GenerateStart(localStorage, today)
       IN  /\ localStorage' = start.ls
           /\ IF start.threw # <<>>
              THEN /\ svcResult' = [threw |-> start.threw, returned |-> <<>>]
                   /\ UNCHANGED genPending
              ELSE /\ genPending' = <<BuildRequest(
                                       Arguments(prompt, context, fileContent,
                                                 isImage))>>
                   /\ UNCHANGED svcResult
    /\ UNCHANGED <<dbVars, hostVars, today, appVars, otherTabUses, svcPending, svcCheck, fileVars,
                   langVars>>

\* model.generateContent resolves with text
GenProviderReplies(text) ==
    /\ genPending # <<>>
    /\ LET done == GenerateReturn(localStorage, today, genPending[1], text)
       IN  /\ localStorage' = done.ls
           /\ svcResult' = [threw |-> <<>>, returned |-> <<done.returned>>]
    /\ genPending' = <<>>
    /\ UNCHANGED <<dbVars, hostVars, today, appVars, otherTabUses, svcPending, svcCheck, fileVars,
                   langVars>>

\* model.generateContent rejects with error
GenProviderFails(error) ==
    /\ genPending # <<>>
    /\ LET caught == GenerateCatch(localStorage, today, error)
       IN  /\ localStorage' = caught.ls
           /\ svcResult' = [threw |-> <<caught.threw>>, returned |-> <<>>]
    /\ genPending' = <<>>
    /\ UNCHANGED <<dbVars, hostVars, today, appVars, otherTabUses, svcPending,
                   svcCheck, fileVars, langVars>>

NextGenerate ==
    \/ \E prompt \in Prompts, context \in Contexts,
          fileContent \in FileContents, isImage \in ImageFlags :
           GenGenerateResponse(prompt, context, fileContent, isImage)
    \/ \E text \in Replies : GenProviderReplies(text)
    \/ \E error \in ProviderErrors : GenProviderFails(error)

SpecGenerate == Init /\ [][NextGenerate]_vars

----------------------------------------------------------------------------
(* Language Heuristics and the Translation Adapter called directly        *)

\* the longest text given to detectLanguage and translateText
MaxTextLen == 2

\* h, ss, N~, a`, a~, i`, n~, zhe, a (hiragana), zhong, ga (hangul), alef, a (devanagari)
LangChars ==
    {104, 223, 209, 224, 227, 236, 241, 1078, 12354, 20013, 44032, 1575, 2309}

LangTexts == UNION { [1..n -> LangChars] : n \in 0..MaxTextLen }

\* the tags given to translateText
LangTags == {"en", "es"}

InitLanguage ==
    /\ InitComponents
    /\ localStorage = EmptyStorage
    /\ langText \in LangTexts
    /\ langFrom \in LangTags
    /\ langTo \in LangTags

\* await detectLanguage(langText)
RunDetectLanguage ==
    /\ detected = <<>>
    /\ detected' = <<detectLanguage(langText)>>
    /\ UNCHANGED <<dbVars, hostVars, today, localStorage, appVars, otherTabUses, svcVars, fileVars,
                   genVars, langText, langFrom, langTo, translated>>

\* await translateText(langText, langFrom, langTo)
RunTranslateText ==
    /\ translated = <<>>
    /\ translated' = <<translateText(langText, langFrom, langTo)>>
    /\ UNCHANGED <<dbVars, hostVars, today, localStorage, appVars, otherTabUses, svcVars, fileVars,
                   genVars, langText, langFrom, langTo, detected>>

NextLanguage ==
    \/ RunDetectLanguage
    \/ RunTranslateText

SpecLanguage == InitLanguage /\ [][NextLanguage]_vars

----------------------------------------------------------------------------
(* Uploads, removals and typed submissions, with files that processFile   *)
(* rejects                                                                *)

\* data.csv (text/csv): a type processFile does not support
DataCsv ==
    File(<<100, 97, 116, 97, 46, 99, 115, 118>>, <<116, 101, 120, 116, 47, 99, 115, 118>>, <<100>>)

\* scan.pdf (application/pdf): bytes that pdf-parse rejects
ScanPdf ==
    File(<<115, 99, 97, 110, 46, 112, 100, 102>>,
         <<97, 112, 112, 108, 105, 99, 97, 116, 105, 111, 110, 47, 112, 100, 102>>, <<0>>)

UploadFiles == Files \cup {DataCsv, ScanPdf}

\* what is dropped or chosen at once: one file or two
UploadDrops == {drop \in SUBSET UploadFiles : Cardinality(drop) \in 1..2}

NextUpload ==
    \/ Mount
    \/ ShowFileUploadClick
    \/ \E files \in UploadDrops : FilesDropped(files)
    \/ \E file \in UploadFiles : ProcessFileDone(file)
    \/ \E file \in UploadFiles : RemoveFileClick(file.name)
    \/ \E text \in TurnTexts : InputEnterKey(text)
    \/ CallGenerate
    \/ \E i \in 1..MaxInFlight, text \in Replies : ProviderReplies(i, text)
    \/ \E i \in 1..MaxInFlight, error \in TurnErrors : ProviderFails(i, error)

SpecUpload == InitTurn /\ [][NextUpload]_vars

----------------------------------------------------------------------------
(* The session on a clock: typed submissions, uploads and credential      *)
(* changes, with the milliseconds that pass or do not pass between them   *)

\* "hi"
ClockTexts == {<<104, 105>>}

\* a refused request, a rejected key
ClockErrors == {<<>>, <<{"API key"}>>}

NextClock ==
    \/ Tick
    \/ Mount
    \/ \E text \in ClockTexts : InputEnterKey(text)
    \/ CallGenerate
    \/ \E i \in 1..MaxInFlight, text \in Replies : ProviderReplies(i, text)
    \/ \E i \in 1..MaxInFlight, error \in ClockErrors : ProviderFails(i, error)
    \/ ShowFileUploadClick
    \/ \E files \in Drops : FilesDropped(files)
    \/ \E file \in Files : ProcessFileDone(file)
    \/ ApiKeyModalClose
    \/ \E apiKey \in {<<107>>} : ApiKeyModalSubmit(apiKey)

SpecClock == InitTurn /\ [][NextClock]_vars

----------------------------------------------------------------------------
(* The whole session: typed and voice submissions, uploads and removals,  *)
(* credential changes, the provider's replies and failures                *)

NextSession ==
    \/ Mount
    \/ ShowFileUploadClick
    \/ \E files \in Drops : FilesDropped(files)
    \/ \E file \in Files : ProcessFileDone(file)
    \/ \E file \in Files : RemoveFileClick(file.name)
    \/ \E text \in ClockTexts : SendButtonClick(text)
    \/ \E text \in ClockTexts : InputEnterKey(text)
    \/ CallGenerate
    \/ \E i \in 1..MaxInFlight, text \in Replies : ProviderReplies(i, text)
    \/ \E i \in 1..MaxInFlight, error \in ClockErrors : ProviderFails(i, error)
    \/ ApiKeyButtonClick
    \/ ApiKeyModalClose
    \/ \E apiKey \in {<<107>>} : ApiKeyModalSubmit(apiKey)
    \/ VoiceButtonClick
    \/ RecognitionOnStart
    \/ \E transcript \in ClockTexts, lang \in {"en"} :
           RecognitionOnResult(transcript, lang)
    \/ RecognitionOnError
    \/ RecognitionOnEnd

SpecSession == InitTurn /\ [][NextSession]_vars

----------------------------------------------------------------------------
(* The single tab in a browser that may refuse the store *)

NextStorage ==
    \/ StorageDenied
    \/ Mount
    \/ \E text \in ClockTexts : SendButtonClick(text)
    \/ \E text \in ClockTexts : InputEnterKey(text)
    \/ CallGenerate
    \/ \E i \in 1..MaxInFlight, text \in Replies : ProviderReplies(i, text)
    \/ \E i \in 1..MaxInFlight : ProviderRepliesUncounted(i)
    \/ \E i \in 1..MaxInFlight, error \in ClockErrors : ProviderFails(i, error)
    \/ ApiKeyButtonClick
    \/ ApiKeyModalClose
    \/ \E apiKey \in KeyInputs : ApiKeyModalSubmit(apiKey)

SpecStorage == Init /\ [][NextStorage]_vars

----------------------------------------------------------------------------
(* Analytics store: table public.conversations behind row level security *)

MaxRows == 2
MaxDbNow == 1

\* auth.users: the accounts that can sign in
Accounts == {"operator", "alice", "bob"}

\* auth.uid() of a request: <<account>> in a signed-in session, <<>> (NULL)
\* in an anonymous one; the user_id given to an INSERT, likewise
Uids == {<<>>} \cup {<<account>> : account \in Accounts}

\* a = b in SQL: not true when either side is NULL
SqlEquals(a, b) == a # <<>> /\ b # <<>> /\ a = b

\* policy "Users can view their own conversations"
CanSelect(uid, row) == SqlEquals(uid, row.user_id)

\* policy "Users can insert their own conversations"
CanInsert(uid, row) == SqlEquals(uid, row.user_id)

\* GRANT EXECUTE ON FUNCTION public.get_all_conversations_admin()
\* TO authenticated
CanExecute(uid) == uid # <<>>

\* ORDER BY created_at DESC
OrderedByCreatedAtDesc(rows) ==
    \A i, j \in 1..Len(rows) :
        i < j => rows[i].created_at >= rows[j].created_at

\* the function get_all_conversations_admin, SECURITY DEFINER: the results
\* it can return are all rows of the table, no policy applied, in an order
\* of descending created_at
get_all_conversations_admin ==
    { result \in { [i \in 1..Len(conversations) |-> conversations[p[i]]] :
                       p \in Permutations(1..Len(conversations)) } :
        OrderedByCreatedAtDesc(result) }

\* the table as the first migration creates it, no session opened
InitStore ==
    /\ InitComponents
    /\ localStorage = EmptyStorage
    /\ langText = <<>>
    /\ langFrom = "en"
    /\ langTo = "en"

DbTick ==
    /\ dbNow < MaxDbNow
    /\ dbNow' = dbNow + 1
    /\ UNCHANGED <<conversations, dbRead, hostVars, fileVars, langVars,
                   genVars, today, localStorage, appVars, otherTabUses,
                   svcVars>>

\* INSERT INTO conversations (user_id, ...) by a session of uid
DbInsert(uid, user_id) ==
    /\ Len(conversations) < MaxRows
    /\ LET row == [id         |-> Len(conversations) + 1,
                   user_id    |-> user_id,
                   created_at |-> dbNow]
       IN  /\ CanInsert(uid, row)
           /\ conversations' = Append(conversations, row)
    /\ UNCHANGED <<dbNow, dbRead, hostVars, fileVars, langVars, genVars,
                   today, localStorage, appVars, otherTabUses, svcVars>>

\* SELECT * FROM conversations by a session of uid
DbSelect(uid) ==
    /\ dbRead' = [by   |-> uid,
                  via  |-> "select",
                  rows |-> SelectSeq(conversations,
                                     LAMBDA row : CanSelect(uid, row))]
    /\ UNCHANGED <<conversations, dbNow, hostVars, fileVars, langVars,
                   genVars, today, localStorage, appVars, otherTabUses,
                   svcVars>>

\* fetchDashboardStats, lines 120-131: the admin view, opened in a session
\* of uid, calls supabase.rpc('get_all_conversations_admin')
fetchDashboardStats(uid) ==
    /\ CanExecute(uid)
    /\ \E result \in get_all_conversations_admin :
           dbRead' = [by |-> uid, via |-> "rpc", rows |-> result]
    /\ UNCHANGED <<conversations, dbNow, hostVars, fileVars, langVars,
                   genVars, today, localStorage, appVars, otherTabUses,
                   svcVars>>

NextStore ==
    \/ DbTick
    \/ \E uid \in Uids, user_id \in Uids : DbInsert(uid, user_id)
    \/ \E uid \in Uids : DbSelect(uid)
    \/ \E uid \in Uids : fetchDashboardStats(uid)

SpecStore == InitStore /\ [][NextStore]_vars

----------------------------------------------------------------------------
(* Properties *)

\* the usage count and the reset date the store holds
StoredCount == parseInt(StoredCountString(localStorage))
StoredDate == getItem(localStorage, USAGE_DATE_KEY)

\* today's count has reached the limit: remaining = 0
QuotaExhausted ==
    /\ StoredDate = <<toDateString(today)>>
    /\ StoredCount >= MAX_DAILY_USAGE

\* a submission of text: the Send button, the Enter key, or a voice result
Submits(text, lang) ==
    \/ SendButtonClick(text)
    \/ InputEnterKey(text)
    \/ RecognitionOnResult(text, lang)

\* messages' is messages with one ChatTurn appended
AppendsOne ==
    /\ Len(messages') = Len(messages) + 1
    /\ SubSeq(messages', 1, Len(messages)) = messages

\* C1: a non-empty submission made when the quota is exhausted dispatches no
\* generation request, appends exactly one ChatTurn, a non-user turn stating
\* the limit, does not enter AwaitingResponse and leaves the stored usage
\* count unchanged.
C1_QuotaBlockedSubmit ==
    [][\A text \in Texts, lang \in VoiceLangs :
          (Submits(text, lang) /\ Trim(text) # <<>> /\ QuotaExhausted)
          => /\ inFlight' = inFlight
             /\ calling' = <<>>
             /\ AppendsOne
             /\ ~messages'[Len(messages')].isUser
             /\ messages'[Len(messages')].text = LimitReachedText(0)
             /\ isLoading' = isLoading
             /\ StoredCount' = StoredCount]_vars

C1_Witness ==
    /\ QuotaExhausted
    /\ \E k \in 1..Len(messages) :
          /\ messages[k].text = LimitReachedText(0)
          /\ ~messages[k].isUser

\* C2: at every moment at most one generation request is in flight.
C2_SingleFlight == Len(inFlight) <= 1

\* C4: once the LimitExceeded or CredentialInvalid sub-state is entered, no
\* submission reaches the Generation Client until a credential is supplied.
C4_SuspendedUntilCredential ==
    [][(subState # "none" /\ subState' # "none")
          => Len(inFlight') <= Len(inFlight)]_vars

\* what the orchestrator does with a failure of class message
FailureOutcome(message) ==
    /\ AppendsOne
    /\ ~messages'[Len(messages')].isUser
    /\ ~isLoading'
    /\ IF message \in {API_QUOTA_EXCEEDED, LIMIT_EXCEEDED}
       THEN isLimitExceeded' /\ showApiKeyModal'
       ELSE IF message = INVALID_API_KEY
       THEN ~isLimitExceeded' /\ showApiKeyModal'
       ELSE /\ messages'[Len(messages')].text = ApologyText
            /\ showApiKeyModal' = showApiKeyModal
            /\ isLimitExceeded' = isLimitExceeded

\* C5: on a Generation Client failure, ApiQuotaExceeded or LimitExceeded sets
\* the LimitExceeded flag and opens the credential prompt; InvalidApiKey
\* clears the flag and opens the prompt; any other failure appends the
\* apology ChatTurn and opens no prompt; each returns to Idle.
C5_FailureTransitions ==
    [][/\ \A i \in 1..MaxInFlight, error \in ProviderErrors :
             ProviderFails(i, error) => FailureOutcome(ClassifyError(error))
       /\ (CallGenerate /\ QuotaExhausted) => FailureOutcome(LIMIT_EXCEEDED)]_vars

C5_Witness ==
    /\ isLimitExceeded
    /\ showApiKeyModal
    /\ ~isLoading
    /\ messages # <<>>
    /\ messages[Len(messages)].text = LimitKeyText

\* what supplying the credential stored leaves behind
CredentialOutcome(stored) ==
    /\ ~isLimitExceeded'
    /\ ~showApiKeyModal'
    /\ subState' = "none"
    /\ getItem(localStorage', API_KEY_STORAGE) = <<stored>>
    /\ StoredCount' = 0
    /\ StoredDate' = <<toDateString(today)>>
    /\ usageInfo' = [canUse |-> TRUE, remaining |-> 4]

\* C6 as claimed: supplying any non-empty credential through the prompt
\* clears both sub-states, stores that credential and resets the quota.
C6_AnyNonEmptyCredential ==
    [][\A apiKey \in KeyInputs :
          (ApiKeyModalSubmit(apiKey) /\ apiKey # <<>>)
          => CredentialOutcome(apiKey)]_vars

\* C6: supplying through the prompt a credential that is non-empty once
\* trimmed, from any orchestrator state, clears both sub-states (flag false,
\* prompt closed), stores the trimmed credential and resets the quota, so
\* that remaining is 4 and the display shows it.
C6_CredentialSupplied ==
    [][\A apiKey \in KeyInputs :
          (ApiKeyModalSubmit(apiKey) /\ Trim(apiKey) # <<>>)
          => CredentialOutcome(Trim(apiKey))]_vars

C6_Witness ==
    /\ subState = "none"
    /\ ~showApiKeyModal
    /\ getItem(localStorage, API_KEY_STORAGE) # <<>>
    /\ usageInfo.remaining = 4
    /\ Len(messages) >= 2
    /\ messages[Len(messages)].text = KeyUpdatedText
    /\ messages[Len(messages) - 1].text \in {LimitKeyText, InvalidKeyText}

\* C3: generateResponse called with the quota exhausted throws
\* LIMIT_EXCEEDED, unclassified, dispatches nothing and leaves the store as
\* it was.
C3_LimitExceededFirst ==
    [][(SvcGenerateResponse /\ QuotaExhausted)
          => /\ svcResult'.threw = <<LIMIT_EXCEEDED>>
             /\ svcPending' = svcPending
             /\ localStorage' = localStorage]_vars

C3_Witness ==
    /\ svcResult.threw = <<LIMIT_EXCEEDED>>
    /\ QuotaExhausted

\* C7: the first checkUsageLimit on a day other than the one a count was
\* recorded on returns remaining = 4 and canUse = true, and leaves the store
\* holding count 0 and today's date.
C7_LazyReset ==
    [][(SvcCheckUsageLimit /\ StoredDate # <<>>
                           /\ StoredDate # <<toDateString(today)>>)
          => /\ svcCheck'[1].remaining = 4
             /\ svcCheck'[1].canUse
             /\ StoredCount' = 0
             /\ StoredDate' = <<toDateString(today)>>]_vars

C7_Witness ==
    /\ svcCheck # <<>>
    /\ svcCheck[1].newDay
    /\ svcCheck[1].read > 0
    /\ svcCheck[1].remaining = 4

\* C8: when incrementUsage runs with a stored date other than today, the
\* earlier day's count is treated as 0: afterwards the count is 1 and the
\* date is today.
C8_ResetBeforeRecordUse ==
    [][\A text \in Replies :
          (SvcProviderReplies(text) /\ StoredDate # <<toDateString(today)>>)
          => /\ StoredCount' = 1
             /\ StoredDate' = <<toDateString(today)>>]_vars

\* C9: within one day, once 4 or more uses are recorded, checkUsageLimit
\* returns canUse = false and remaining = 0, never a negative remaining.
C9_ExhaustedStaysExhausted ==
    svcCheck # <<>> =>
        /\ svcCheck[1].remaining >= 0
        /\ (~svcCheck[1].newDay /\ svcCheck[1].read >= MAX_DAILY_USAGE)
              => (~svcCheck[1].canUse /\ svcCheck[1].remaining = 0)

C9_Witness ==
    /\ svcCheck # <<>>
    /\ ~svcCheck[1].newDay
    /\ svcCheck[1].read = MAX_DAILY_USAGE + 1
    /\ ~svcCheck[1].canUse

\* C10 as claimed: consecutive checkUsageLimit calls with no incrementUsage
\* and no setApiKey between them all return the same remaining.
C10_ChecksAgree ==
    [][(svcCheck # <<>> /\ svcCheck' # <<>>)
          => svcCheck'[1].remaining = svcCheck[1].remaining]_vars

\* C10: consecutive checkUsageLimit calls made on one calendar day, with no
\* incrementUsage and no setApiKey between them, all return the same
\* remaining.
C10_ChecksAgreeWithinDay ==
    [][(svcCheck # <<>> /\ svcCheck' # <<>>
                        /\ svcCheck'[1].day = svcCheck[1].day)
          => svcCheck'[1].remaining = svcCheck[1].remaining]_vars

C10_Witness ==
    /\ svcCheck # <<>>
    /\ svcCheck[1].again
    /\ svcCheck[1].remaining < MAX_DAILY_USAGE

\* C11: setApiKey(x), from any prior count (over the limit included) and any
\* stored date, replaces the stored credential with x and sets the count to
\* 0 and the date to today, so that the next checkUsageLimit returns
\* remaining = 4 and canUse = true.
C11_SetApiKeyResets ==
    [][\A apiKey \in KeyInputs :
          SvcSetApiKey(apiKey)
          => /\ getItem(localStorage', API_KEY_STORAGE) = <<apiKey>>
             /\ StoredCount' = 0
             /\ StoredDate' = <<toDateString(today)>>
             /\ Returned(checkUsageLimit(localStorage', today))
                   = [canUse |-> TRUE, remaining |-> 4]]_vars

\* setApiKey has run, and the check after it returned the full quota, in a
\* run whose quota was exhausted before
C11_Witness ==
    /\ getItem(localStorage, API_KEY_STORAGE) # <<>>
    /\ svcResult.threw = <<LIMIT_EXCEEDED>>
    /\ svcCheck # <<>>
    /\ ~svcCheck[1].again
    /\ ~svcCheck[1].newDay
    /\ svcCheck[1].read = 0
    /\ svcCheck[1].remaining = 4
    /\ svcCheck[1].canUse

\* the tags of the rules in their fixed order
RuleOrder == <<"es", "fr", "de", "it", "pt", "ru", "zh", "ja", "ko", "ar", "hi">>

\* the rules that match at least one character of text
Matching(text) == {k \in 1..Len(patterns) : PatternTest(patterns[k], text)}

\* text is non-empty and made of characters of set only
MadeOf(text, set) == text # <<>> /\ \A k \in 1..Len(text) : text[k] \in set

\* text holds a character of set
Holds(text, set) == \E k \in 1..Len(text) : text[k] \in set

\* C16: detectLanguage returns the tag of the first rule, in the order es,
\* fr, de, it, pt, ru, zh, ja, ko, ar, hi, that matches a character of the
\* text, and "en" when none does: only "n~" gives "es", only CJK ideographs
\* give "zh", plain ASCII gives "en", a Spanish diacritic together with a
\* Cyrillic letter gives "es".
C16_FirstRuleWins ==
    detected # <<>> =>
        /\ \A k \in 1..Len(patterns) : patterns[k].lang = RuleOrder[k]
        /\ IF Matching(langText) = {}
           THEN detected[1] = "en"
           ELSE \E k \in Matching(langText) :
                   /\ \A j \in Matching(langText) : k <= j
                   /\ detected[1] = RuleOrder[k]
        /\ MadeOf(langText, {241}) => detected[1] = "es"
        /\ MadeOf(langText, 19968..40959) => detected[1] = "zh"
        /\ MadeOf(langText, 0..127) => detected[1] = "en"
        /\ (Holds(langText, {241, 209}) /\ Holds(langText, 1040..1103))
              => detected[1] = "es"

C16_Witness ==
    /\ detected = <<"es">>
    /\ Holds(langText, {241})
    /\ Holds(langText, {1078})

\* C17: translateText(text, L, L) returns text unchanged for every text and
\* tag L, and for every pair (from, to) the stub returns text unchanged.
C17_TranslateIsIdentity ==
    translated # <<>> => translated[1] = langText

C17_Witness ==
    /\ translated # <<>>
    /\ langText # <<>>
    /\ langFrom # langTo
    /\ langTo # "en"

\* C20: every provider failure is classified by its message into exactly
\* one class: a quota or resource-exhausted message gives
\* API_QUOTA_EXCEEDED; otherwise an invalid-credential or invalid-argument
\* message gives INVALID_API_KEY; otherwise a permission or forbidden
\* message gives the forbidden error; every other message, or none, gives
\* the generic failure.
C20_FailureClasses ==
    [][\A error \in ProviderErrors :
          SvcProviderFails(error)
          => svcResult'.threw =
               << IF Includes(error, "quota")
                     \/ Includes(error, "RESOURCE_EXHAUSTED")
                  THEN API_QUOTA_EXCEEDED
                  ELSE IF Includes(error, "API key")
                          \/ Includes(error, "INVALID_ARGUMENT")
                  THEN INVALID_API_KEY
                  ELSE IF Includes(error, "PERMISSION_DENIED")
                          \/ Includes(error, "forbidden")
                  THEN API_FORBIDDEN
                  ELSE GENERATION_FAILED >>]_vars

\* C12: every generateResponse that returns, on the text path and on the
\* image path alike, has increased the stored count by exactly 1 and returns
\* the provider's text, or the path's fixed fallback string when that text
\* is empty.
C12_SuccessCountsOnce ==
    [][\A text \in Replies :
          GenProviderReplies(text)
          => /\ StoredCount' = StoredCount + 1
             /\ svcResult'.threw = <<>>
             /\ svcResult'.returned =
                  << IF text # <<>> THEN [tpl |-> "{0}", arg |-> text]
                     ELSE IF genPending[1].inlineData # <<>>
                     THEN [tpl |-> "Unable to analyze image.", arg |-> <<>>]
                     ELSE [tpl |-> "Unable to generate response.",
                           arg |-> <<>>] >>]_vars

C12_Witness ==
    /\ svcResult.returned = <<[tpl |-> "Unable to analyze image.", arg |-> <<>>]>>
    /\ StoredCount = MAX_DAILY_USAGE
    /\ genPending = <<>>

\* the remaining that checkUsageLimit computes from the store
StoredRemaining == Returned(checkUsageLimit(localStorage, today)).remaining

\* C13: every successful turn appends the assistant's ChatTurn after the
\* user's and lowers remaining, in the store and on the display, by exactly 1.
C13_TurnLowersRemainingByOne ==
    [][\A i \in 1..MaxInFlight, text \in Replies :
          ProviderReplies(i, text)
          => /\ AppendsOne
             /\ ~messages'[Len(messages')].isUser
             /\ \E k \in 1..Len(messages) :
                   messages[k].isUser /\ messages[k].text = Plain(inFlight[i].text)
             /\ StoredRemaining' = StoredRemaining - 1
             /\ usageInfo'.remaining = StoredRemaining']_vars

\* the text "hola"
Hola == <<104, 111, 108, 97>>

\* a typed submission of text was accepted
TypedAccepted(text) ==
    /\ SendButtonClick(text) \/ InputEnterKey(text)
    /\ calling' # <<>>

\* C14 as claimed: a typed submission of "hola" resolves to "es".
C14_HolaIsSpanish ==
    [][TypedAccepted(Hola) => calling'[1].userLanguage = "es"]_vars

\* C14: a typed submission of "hola", which holds no character of any rule,
\* resolves to "en": the text is sent untranslated and the assistant
\* ChatTurn is tagged "en".
C14_HolaIsEnglish ==
    [][/\ TypedAccepted(Hola) => calling'[1].userLanguage = "en"
       /\ \A i \in 1..MaxInFlight, text \in Replies :
             (ProviderReplies(i, text) /\ inFlight[i].text = Hola
                                       /\ inFlight[i].detectedLang = "en")
             => /\ inFlight[i].userLanguage = "en"
                /\ inFlight[i].request.parts[1].args[Len(inFlight[i].request.parts[1].args)]
                      = Hola
                /\ messages'[Len(messages')].language = "en"]_vars

C14_Witness ==
    \E k \in 1..(Len(messages) - 1) :
        /\ messages[k].text = Plain(Hola)
        /\ messages[k].isUser
        /\ messages[k].language = "en"
        /\ ~messages[k + 1].isUser
        /\ messages[k + 1].language = "en"
        /\ messages[k + 1].text = Plain(<<79, 75>>)

\* C15: the effective source language of a turn is the tag the voice input
\* supplied, for every tag, "en" included.
C15_VoiceTagWins ==
    [][\A transcript \in TurnTexts, lang \in VoiceLangs :
          (RecognitionOnResult(transcript, lang) /\ calling' # <<>>)
          => calling'[1].userLanguage = lang]_vars

\* CallGenerate has dispatched the request of the submission under way
Dispatches == CallGenerate /\ Len(inFlight') = Len(inFlight) + 1

\* C18: when the active file is an image, the request of a submission is the
\* multimodal one: the instruction "Analyze this image and answer: {prompt}"
\* with the inline payload whose MIME type and base64 data are the two parts
\* of the stored data URL.
C18_ImageRequest ==
    [][(Dispatches /\ uploadedFiles # <<>>
                   /\ uploadedFiles[Len(uploadedFiles)].isImage)
          => LET request == inFlight'[Len(inFlight')].request
                 content == uploadedFiles[Len(uploadedFiles)].content
             IN  /\ request.parts =
                      << [tpl  |-> "Analyze this image and answer: {0}",
                          args |-> <<EnglishText(calling[1].text,
                                                 calling[1].userLanguage)>>] >>
                 /\ request.inlineData # <<>>
                 /\ request.inlineData[1].mimeType # <<>>
                 /\ request.inlineData[1].data # <<>>
                 /\ <<100, 97, 116, 97, 58>> \o request.inlineData[1].mimeType[1]
                       \o <<59, 98, 97, 115, 101, 54, 52, 44>>
                       \o request.inlineData[1].data[1] = content]_vars

\* C19: with no active file the prompt is sent as it is; with an active file
\* that is not an image, whatever its content, the request is the document
\* template built from that content and the prompt.
C19_TextRequestShape ==
    [][Dispatches
          => LET request == inFlight'[Len(inFlight')].request
                 prompt == EnglishText(calling[1].text, calling[1].userLanguage)
             IN  IF uploadedFiles = <<>>
                 THEN request = [parts |-> <<[tpl |-> "{0}", args |-> <<prompt>>]>>,
                                 inlineData |-> <<>>]
                 ELSE ~uploadedFiles[Len(uploadedFiles)].isImage
                      => request =
                           [parts |-> << [tpl  |-> "Based on this document content:\n\n{0}\n\nUser question: {1}",
                                          args |-> <<uploadedFiles[Len(uploadedFiles)].content,
                                                     prompt>>] >>,
                            inlineData |-> <<>>]]_vars

\* C21: every accepted submission eventually returns the orchestrator to
\* Idle, provided the provider call completes: while a submission is
\* loading, the loading flag is eventually cleared, and every submission
\* that ends, by a response or by any error of the Generation Client, ends
\* with one more ChatTurn and the loading flag cleared, so that the input
\* accepts the next submission.
C21_ReturnsToIdle ==
    /\ isLoading ~> ~isLoading
    /\ [][Owed' < Owed => (AppendsOne /\ ~isLoading')]_vars

C21_Witness ==
    /\ ~isLoading
    /\ Owed = 0
    /\ Len(messages) >= 2
    /\ messages[Len(messages) - 1].isUser
    /\ messages[Len(messages)].text = ApologyText

\* C24: within one calendar day, in a single tab and with no credential
\* change (the credential slot of the store was never written), the stored
\* usage count never exceeds the limit 4, whatever typed and voice
\* submissions were made.
C24_CountWithinLimit ==
    getItem(localStorage, API_KEY_STORAGE) = <<>>
        => StoredCount <= MAX_DAILY_USAGE

\* the display shows what checkUsageLimit returns from the store
DisplayAgrees ==
    usageInfo = Returned(checkUsageLimit(localStorage, today))

Admin == <<"operator">>

\* C23: a user who is not the admin reads only the records whose user_id
\* is their own; all records are read only by the admin, through the
\* read-all function, which returns them by descending creation time.
C23_OwnRecordsOnly ==
    dbRead # <<>> =>
        /\ dbRead.by # Admin =>
               \A k \in 1..Len(dbRead.rows) : dbRead.rows[k].user_id = dbRead.by
        /\ dbRead.via = "rpc" =>
               /\ Len(dbRead.rows) = Len(conversations)
               /\ OrderedByCreatedAtDesc(dbRead.rows)

C26_DistinctIds ==
    \A j, k \in 1..Len(messages) :
        j # k => messages[j].id # messages[k].id

\* the files whose upload fails
Rejected == {DataCsv, ScanPdf}

\* C27: after any sequence of uploads, removals and submissions at most
\* one active file is retained: every successful upload, also of several
\* files dropped at once, leaves the uploaded file as the only active one,
\* and a failed or unsupported upload leaves the active file and the
\* ChatTurn history unchanged.
C27_OneActiveFile ==
    /\ [](Len(uploadedFiles) <= 1)
    /\ [][\A file \in UploadFiles :
             ProcessFileDone(file)
             => IF file \in Rejected
                THEN uploadedFiles' = uploadedFiles /\ messages' = messages
                ELSE /\ Len(uploadedFiles') = 1
                     /\ uploadedFiles'[1].name = file.name
                     /\ AppendsOne]_vars

\* two files dropped at once were both uploaded: the later one is active
C27_Witness ==
    /\ Len(uploadedFiles) = 1
    /\ processing = {}
    /\ Len(messages) >= 2
    /\ \E k \in 1..(Len(messages) - 1) :
          /\ messages[k].text.arg # messages[k + 1].text.arg
          /\ messages[k].text.tpl = UploadedText(<<>>).tpl
          /\ messages[k + 1].text = UploadedText(uploadedFiles[1].name)

\* C28: the ChatTurn history is append-only: every operation either
\* leaves the sequence unchanged or appends turns at its end; no existing
\* turn is removed, reordered or modified.
C28_AppendOnly ==
    [][/\ Len(messages') >= Len(messages)
       /\ \A k \in 1..Len(messages) : messages'[k] = messages[k]]_vars

\* an upload confirmation, a user turn, the failure turn asking for a
\* key, and the confirmation of the credential change, in this order
C28_Witness ==
    /\ Len(messages) = 4
    /\ messages[1].text.tpl = UploadedText(<<>>).tpl
    /\ messages[2].isUser
    /\ messages[3].text = InvalidKeyText
    /\ messages[4].text = KeyUpdatedText

\* C22: with the store unavailable, checkUsageLimit, incrementUsage,
\* setApiKey and a submission complete without raising: no error goes
\* uncaught, and a submitted non-blank text still appends its ChatTurn.
C22_StorageFailuresAbsorbed ==
    /\ [](uncaught = <<>>)
    /\ [][\A text \in ClockTexts :
             (InputEnterKey(text) /\ storageDisabled)
             => Len(messages') > Len(messages)]_vars

====
